---- MODULE Spec2Model ----
(***************************************************************************)
(* A model of the top-down arena demo in src/main.rs: the startup system   *)
(* `setup`, the entity builders `transform2d`, `spawn_rectangle` and       *)
(* `spawn_rigid_body_rectangle`, the fixed-timestep system                 *)
(* `keyboard_control`, and the frame loop that `main` assembles.           *)
(*                                                                         *)
(* Numbers.  Lengths are world units (all values in the source are whole   *)
(* numbers, and every size that is halved is even).  Angles are degrees,   *)
(* PI = 180.  Time is counted in units of TIME_STEP / SubTicks.            *)
(***************************************************************************)
EXTENDS Integers, Sequences, FiniteSets

VARIABLES
    pc,         \* "startup": before the startup stage; "idle": between frames; "frame": inside a frame
    world,      \* the entities, in spawn order
    gravity,    \* RapierConfiguration.gravity
    keys,       \* Input<KeyCode>: the directional keys currently pressed
    acc,        \* the accumulator of FixedTimestep::step(TIME_STEP)
    physDone,   \* the physics plugin's step has run in the current frame
    elapsed,    \* sum of the frame durations so far
    frames,     \* number of frames started
    ticks,      \* number of runs of keyboard_control
    steps,      \* number of physics steps
    setupRuns,  \* number of runs of setup
    gravRead,   \* the gravity the last physics step read
    lastOp,     \* the operation that produced this state
    before      \* the world as it was before the last run of keyboard_control

vars == <<pc, world, gravity, keys, acc, physDone, elapsed, frames, ticks,
          steps, setupRuns, gravRead, lastOp, before>>

(***************************************************************************)
(* Bounds of the model.                                                    *)
(***************************************************************************)
SubTicks == 2       \* time units per fixed interval
MaxTime == 5        \* total time modelled: a frame of d units starts only while elapsed + d <= MaxTime
MaxFrames == 2      \* number of frames modelled
MaxDrift == 1       \* the physics step keeps the body within this distance of the origin
MaxEnt == 2         \* entities in a world handed to keyboard_control directly

(***************************************************************************)
(* Program constants.                                                      *)
(***************************************************************************)
PI == 180
FPS == 60
SPEED == 200
wall_thickness == 10

\* const TIME_STEP: f32 = 1.0 / FPS, in time units of 1 / (FPS * SubTicks) s
TIME_STEP == (FPS * SubTicks) \div FPS

bounds == <<800, 600>>

Keys == {"Left", "Right", "Down", "Up"}

(***************************************************************************)
(* Transforms and rotations.                                               *)
(*                                                                         *)
(* Quat::from_axis_angle(Y, r) is (0, sin(r/2), 0, cos(r/2)); the          *)
(* quaternion is determined by r/2 modulo a full turn, that is by r        *)
(* modulo two full turns, and is represented by that residue.              *)
(***************************************************************************)
from_axis_angle(radians) == radians % (4 * PI)

\* Quat::to_axis_angle().1 is 2 * acos(w) with w = cos(r/2): acos ranges
\* over [0, PI], so the angle returned lies in [0, 2 PI].
to_axis_angle_angle(q) == IF q <= 2 * PI THEN q ELSE 4 * PI - q

transform2d(x, y, z, radians) ==
    [translation |-> <<x, y, z>>, rotation |-> from_axis_angle(radians)]

\* commands.spawn(): an entity with no components
EmptyEntity ==
    [camera |-> FALSE,
     hasSprite |-> FALSE, size |-> <<0, 0>>,
     transform |-> [translation |-> <<0, 0, 0>>, rotation |-> 0],
     hasCollider |-> FALSE, shape |-> <<0, 0>>,
     colPos |-> [translation |-> <<0, 0>>, angle |-> 0],
     sync |-> FALSE,
     hasBody |-> FALSE,
     rbPos |-> [translation |-> <<0, 0>>, angle |-> 0],
     linvel |-> <<0, 0>>, angvel |-> 0, rotLocked |-> FALSE,
     kc |-> FALSE]

\* spawn_rectangle with the collider given the full size instead of half of it
spawn_rectangle_full_extents(entity, transform, size) ==
    [entity EXCEPT
        !.hasSprite = TRUE,
        !.transform = transform,
        !.size = size,
        !.hasCollider = TRUE,
        !.shape = <<size[1], size[2]>>,
        !.colPos = [translation |-> <<transform.translation[1], transform.translation[2]>>,
                    angle |-> to_axis_angle_angle(transform.rotation)],
        !.sync = TRUE]

spawn_rectangle(entity, transform, size) ==
    [entity EXCEPT
        !.hasSprite = TRUE,
        !.transform = transform,
        !.size = size,
        !.hasCollider = TRUE,
        !.shape = <<size[1] \div 2, size[2] \div 2>>,
        !.colPos = [translation |-> <<transform.translation[1], transform.translation[2]>>,
                    angle |-> to_axis_angle_angle(transform.rotation)],
        !.sync = TRUE]

spawn_rigid_body_rectangle(entity, transform, size) ==
    LET e == spawn_rectangle(entity, transform, size)
    IN  [e EXCEPT
            !.hasBody = TRUE,
            !.rbPos = [translation |-> <<transform.translation[1], transform.translation[2]>>,
                       angle |-> 0],
            !.linvel = <<0, 0>>,
            !.angvel = 0,
            !.rotLocked = TRUE]

\* the player spawned without the marker
insert_nothing(entity) == entity

\* .insert(KeyboardControlled)
insert_KeyboardControlled(entity) == [entity EXCEPT !.kc = TRUE]

\* commands.spawn_bundle(OrthographicCameraBundle::new_2d()) and UiCameraBundle
spawn_camera == [EmptyEntity EXCEPT !.camera = TRUE]


\* setup zeroing only the x component
zero_gravity_x_only(g) == [g EXCEPT ![1] = 0]

\* physics_config.gravity.x = 0.0; physics_config.gravity.y = 0.0;
zero_gravity(g) == [g EXCEPT ![1] = 0, ![2] = 0]

(***************************************************************************)
(* setup: the startup system.  It takes the gravity the physics plugin     *)
(* installed and returns the gravity it leaves and the entities it spawns. *)
(***************************************************************************)
setup(g) ==
    [gravity |-> zero_gravity(g),
     world |-> <<
        \* Cameras
        spawn_camera,
        spawn_camera,
        \* Left Wall
        spawn_rectangle(EmptyEntity,
            transform2d(-(bounds[1] \div 2), 0, 0, 0),
            <<wall_thickness, bounds[2]>>),
        \* Right Wall
        spawn_rectangle(EmptyEntity,
            transform2d(bounds[1] \div 2, 0, 0, 0),
            <<wall_thickness, bounds[2]>>),
        \* Top Wall
        spawn_rectangle(EmptyEntity,
            transform2d(0, -(bounds[2] \div 2), 0, 0),
            <<bounds[1], wall_thickness>>),
        \* Bottom Wall
        spawn_rectangle(EmptyEntity,
            transform2d(0, bounds[2] \div 2, 0, 0),
            <<bounds[1], wall_thickness>>),
        \* Additional Walls
        spawn_rectangle(EmptyEntity,
            transform2d(-(bounds[1] \div 2) + 200, (bounds[2] \div 2) - 300, 0, PI \div 3),
            <<bounds[1] \div 4, wall_thickness * 4>>),
        spawn_rectangle(EmptyEntity,
            transform2d((bounds[1] \div 2) - 200, (bounds[2] \div 2) - 300, 0, -((PI * 2) \div 5)),
            <<bounds[1] \div 2, wall_thickness * 2>>),
        \* Player
        insert_KeyboardControlled(
            spawn_rigid_body_rectangle(EmptyEntity,
                transform2d(0, 0, 1, 0),
                <<30, 30>>))
     >>]

(***************************************************************************)
(* keyboard_control                                                        *)
(***************************************************************************)
\* the query without its KeyboardControlled filter
query_matches_any_velocity(w) == {i \in DOMAIN w : w[i].hasBody}

\* The entities matched by Query<(&KeyboardControlled, &mut RigidBodyVelocity)>
query_matches(w) == {i \in DOMAIN w : w[i].kc /\ w[i].hasBody}

\* a query that yields its first match when several entities match
single_mut_first(w) ==
    LET m == query_matches(w)
    IN  IF m # {}
        THEN [ok |-> TRUE, ent |-> CHOOSE i \in m : \A j \in m : i <= j]
        ELSE [ok |-> FALSE, ent |-> 0]

\* query.single_mut(): Ok(the entity) when exactly one entity matches,
\* Err(NoEntities) or Err(MultipleEntities) otherwise
single_mut(w) ==
    LET m == query_matches(w)
    IN  IF Cardinality(m) = 1
        THEN [ok |-> TRUE, ent |-> CHOOSE i \in m : TRUE]
        ELSE [ok |-> FALSE, ent |-> 0]

\* `direction = ...` in place of `direction += ...`: the last key tested wins
direction_last_wins(keyboard_input) ==
    LET d0 == <<0, 0>>
        d1 == IF "Left" \in keyboard_input THEN <<-1, 0>> ELSE d0
        d2 == IF "Right" \in keyboard_input THEN <<1, 0>> ELSE d1
        d3 == IF "Down" \in keyboard_input THEN <<0, -1>> ELSE d2
        d4 == IF "Up" \in keyboard_input THEN <<0, 1>> ELSE d3
    IN  d4

\* let mut direction = Vector::zeros(); followed by the four `if pressed` blocks
direction(keyboard_input) ==
    LET d0 == <<0, 0>>
        d1 == IF "Left" \in keyboard_input THEN <<d0[1] - 1, d0[2]>> ELSE d0
        d2 == IF "Right" \in keyboard_input THEN <<d1[1] + 1, d1[2]>> ELSE d1
        d3 == IF "Down" \in keyboard_input THEN <<d2[1], d2[2] - 1>> ELSE d2
        d4 == IF "Up" \in keyboard_input THEN <<d3[1], d3[2] + 1>> ELSE d3
    IN  d4

\* a mapper that moves the body itself besides setting its velocity
keyboard_control_moves_body(keyboard_input, w) ==
    LET r == single_mut(w)
    IN  IF r.ok
        THEN LET dir == direction(keyboard_input)
             IN  [w EXCEPT ![r.ent].linvel = <<SPEED * dir[1], SPEED * dir[2]>>,
                           ![r.ent].rbPos.translation = <<@[1] + dir[1], @[2] + dir[2]>>]
        ELSE w

\* The world after one run of keyboard_control
keyboard_control(keyboard_input, w) ==
    LET r == single_mut(w)
    IN  IF r.ok
        THEN LET dir == direction(keyboard_input)
             IN  [w EXCEPT ![r.ent].linvel = <<SPEED * dir[1], SPEED * dir[2]>>]
        ELSE w


(***************************************************************************)
(* The physics plugin.  RapierPhysicsPlugin is added to the App by main;   *)
(* its step is outside this repository and is a black box here: it reads   *)
(* the gravity, and for every entity that holds a RigidBodyBundle it       *)
(* leaves some position p and a velocity in which a contact may have       *)
(* cancelled either component.  ColliderPositionSync::Discrete then copies *)
(* the body's position into the collider and the Transform.  Bodies are    *)
(* ROTATION_LOCKED, so the angle stays.                                    *)
(***************************************************************************)
PluginGravity == {<<gx, gy>> : gx \in {0, 1}, gy \in {-981, 0}}

PhysPositions == (-MaxDrift .. MaxDrift) \X (-MaxDrift .. MaxDrift)

physics_body(e, p, cx, cy) ==
    [e EXCEPT
        !.rbPos.translation = p,
        !.linvel = <<IF cx THEN 0 ELSE @[1], IF cy THEN 0 ELSE @[2]>>,
        !.colPos.translation = p,
        !.transform.translation = <<p[1], p[2], @[3]>>]

(***************************************************************************)
(* The program: main runs the startup system once, then frames.  In a      *)
(* frame the FixedTimestep run criteria adds the frame's duration to its   *)
(* accumulator and runs keyboard_control once for every TIME_STEP it can   *)
(* subtract; the physics plugin, registered outside that system set, steps *)
(* once.  main states no order between the two.                            *)
(***************************************************************************)
Init ==
    /\ pc = "startup"
    /\ world = <<>>
    /\ gravity \in PluginGravity
    /\ keys = {}
    /\ acc = 0
    /\ physDone = FALSE
    /\ elapsed = 0
    /\ frames = 0
    /\ ticks = 0
    /\ steps = 0
    /\ setupRuns = 0
    /\ gravRead = <<0, 0>>
    /\ lastOp = "init"
    /\ before = <<>>

\* .add_startup_system(setup.system())
Startup ==
    /\ pc = "startup"
    /\ LET s == setup(gravity)
       IN  /\ gravity' = s.gravity
           /\ world' = s.world
    /\ setupRuns' = setupRuns + 1
    /\ pc' = "idle"
    /\ lastOp' = "setup"
    /\ UNCHANGED <<keys, acc, physDone, elapsed, frames, ticks, steps, gravRead, before>>

\* A frame of duration d begins; the input subsystem reports the keys k
FrameBegin(d, k) ==
    /\ pc = "idle"
    /\ frames < MaxFrames
    /\ elapsed + d <= MaxTime
    /\ pc' = "frame"
    /\ keys' = k
    /\ acc' = acc + d
    /\ elapsed' = elapsed + d
    /\ frames' = frames + 1
    /\ physDone' = FALSE
    /\ lastOp' = "frame"
    /\ UNCHANGED <<world, gravity, ticks, steps, setupRuns, gravRead, before>>

\* a tick that empties the accumulator instead of subtracting one interval
FixedTick_reset ==
    /\ pc = "frame"
    /\ acc >= TIME_STEP
    /\ acc' = 0
    /\ world' = keyboard_control(keys, world)
    /\ ticks' = ticks + 1
    /\ lastOp' = "keyboard_control"
    /\ UNCHANGED <<pc, gravity, keys, physDone, elapsed, frames, steps, setupRuns,
                   gravRead, before>>

\* FixedTimestep::step(TIME_STEP) lets keyboard_control run once more
FixedTick ==
    /\ pc = "frame"
    /\ acc >= TIME_STEP
    /\ acc' = acc - TIME_STEP
    /\ world' = keyboard_control(keys, world)
    /\ ticks' = ticks + 1
    /\ lastOp' = "keyboard_control"
    /\ UNCHANGED <<pc, gravity, keys, physDone, elapsed, frames, steps, setupRuns,
                   gravRead, before>>

\* a physics step that runs again in every pass of the frame
PhysicsStep_every_pass ==
    /\ pc = "frame"
    /\ \E p \in PhysPositions, cx \in BOOLEAN, cy \in BOOLEAN :
          world' = [i \in DOMAIN world |->
                       IF world[i].hasBody
                       THEN physics_body(world[i], p, cx, cy)
                       ELSE world[i]]
    /\ gravRead' = gravity
    /\ steps' = steps + 1
    /\ physDone' = TRUE
    /\ lastOp' = "physics"
    /\ UNCHANGED <<pc, gravity, keys, acc, elapsed, frames, ticks, setupRuns, before>>

\* The physics plugin's step of this frame
PhysicsStep ==
    /\ pc = "frame"
    /\ ~physDone
    /\ \E p \in PhysPositions, cx \in BOOLEAN, cy \in BOOLEAN :
          world' = [i \in DOMAIN world |->
                       IF world[i].hasBody
                       THEN physics_body(world[i], p, cx, cy)
                       ELSE world[i]]
    /\ gravRead' = gravity
    /\ steps' = steps + 1
    /\ physDone' = TRUE
    /\ lastOp' = "physics"
    /\ UNCHANGED <<pc, gravity, keys, acc, elapsed, frames, ticks, setupRuns, before>>

\* The frame ends when the run criteria answers No and the plugin has stepped
FrameEnd ==
    /\ pc = "frame"
    /\ acc < TIME_STEP
    /\ physDone
    /\ pc' = "idle"
    /\ lastOp' = "frame_end"
    /\ UNCHANGED <<world, gravity, keys, acc, physDone, elapsed, frames, ticks, steps,
                   setupRuns, gravRead, before>>

Next ==
    \/ Startup
    \/ \E d \in 0 .. MaxTime, k \in SUBSET Keys : FrameBegin(d, k)
    \/ FixedTick
    \/ PhysicsStep
    \/ FrameEnd

Spec == Init /\ [][Next]_vars

(***************************************************************************)
(* keyboard_control on its own: the system is run on worlds drawn from a   *)
(* bounded set, with every key state, so that worlds with no, one and      *)
(* several matching entities all occur.                                    *)
(***************************************************************************)
KCVelocities == {<<0, 0>>, <<7, -3>>}

KCEntities ==
    LET st == spawn_rectangle(EmptyEntity, transform2d(0, 0, 0, 0), <<10, 10>>)
        dy == spawn_rigid_body_rectangle(EmptyEntity, transform2d(0, 0, 1, 0), <<30, 30>>)
    IN  {st, insert_KeyboardControlled(st)}
        \cup {[dy EXCEPT !.linvel = v] : v \in KCVelocities}
        \cup {insert_KeyboardControlled([dy EXCEPT !.linvel = v]) : v \in KCVelocities}

KCWorlds == UNION {[1 .. n -> KCEntities] : n \in 0 .. MaxEnt}

InitKC ==
    /\ pc = "system"
    /\ world \in KCWorlds
    /\ gravity = <<0, 0>>
    /\ keys \in SUBSET Keys
    /\ acc = 0
    /\ physDone = FALSE
    /\ elapsed = 0
    /\ frames = 0
    /\ ticks = 0
    /\ steps = 0
    /\ setupRuns = 0
    /\ gravRead = <<0, 0>>
    /\ lastOp = "init"
    /\ before = world

\* One run of the system
KCRun ==
    /\ pc = "system"
    /\ before' = world
    /\ world' = keyboard_control(keys, world)
    /\ lastOp' = "keyboard_control"
    /\ UNCHANGED <<pc, gravity, keys, acc, physDone, elapsed, frames, ticks, steps,
                   setupRuns, gravRead>>

\* The key state changes between runs
KCInput(k) ==
    /\ pc = "system"
    /\ k # keys
    /\ keys' = k
    /\ lastOp' = "input"
    /\ UNCHANGED <<pc, world, gravity, acc, physDone, elapsed, frames, ticks, steps,
                   setupRuns, gravRead, before>>

NextKC ==
    \/ KCRun
    \/ \E k \in SUBSET Keys : KCInput(k)

SpecKC == InitKC /\ [][NextKC]_vars


(***************************************************************************)
(* Vocabulary of the properties.                                           *)
(***************************************************************************)
\* The entities that carry the Controlled marker: KeyboardControlled
\* together with a rigid-body velocity
Controlled(w) == {i \in DOMAIN w : w[i].kc /\ w[i].hasBody}

\* Static bodies have a collider and no rigid body; dynamic bodies have a rigid body
StaticBodies(w) == {i \in DOMAIN w : w[i].hasCollider /\ ~w[i].hasBody}
DynamicBodies(w) == {i \in DOMAIN w : w[i].hasBody}

\* 200 x (dx, dy), dx = (+1 if Right) + (-1 if Left), dy = (+1 if Up) + (-1 if Down)
ExpectedVelocity(k) ==
    <<200 * ((IF "Right" \in k THEN 1 ELSE 0) + (IF "Left" \in k THEN -1 ELSE 0)),
      200 * ((IF "Up" \in k THEN 1 ELSE 0) + (IF "Down" \in k THEN -1 ELSE 0))>>

\* Position and rotation of an entity: rigid-body pose, collider pose, Transform
Pose(e) == <<e.rbPos, e.colPos, e.transform>>

\* The signed angle of a Transform's rotation about the axis transform2d uses,
\* in (-2 PI, 2 PI]: the angle that was given to transform2d
TransformAngle(t) == IF t.rotation <= 2 * PI THEN t.rotation ELSE t.rotation - 4 * PI

\* Faces of an unrotated rectangular collider along axis ax (1 = x, 2 = y)
LowFace(e, ax) == e.colPos.translation[ax] - e.shape[ax]
HighFace(e, ax) == e.colPos.translation[ax] + e.shape[ax]

\* The entities setup spawns, by their place in the spawn order
LeftWall == world[3]
RightWall == world[4]
TopWall == world[5]
BottomWall == world[6]
Obstacles == {world[7], world[8]}
Player == world[9]

(***************************************************************************)
(* C1.  After a run of keyboard_control on a world with exactly one        *)
(* Controlled entity, that entity's linear velocity is 200 x (dx, dy) for  *)
(* the keys held, whatever it was before: opposing keys cancel and the     *)
(* direction is not normalized.                                            *)
(***************************************************************************)
C1_VelocityFromKeys ==
    (lastOp = "keyboard_control" /\ Cardinality(Controlled(before)) = 1)
        => \A i \in Controlled(before) : world[i].linvel = ExpectedVelocity(keys)

C1_Witness ==
    /\ lastOp = "keyboard_control"
    /\ Cardinality(Controlled(before)) = 1
    /\ keys = {"Up", "Right"}
    /\ \E i \in Controlled(before) :
          before[i].linvel = <<7, -3>> /\ world[i].linvel = <<200, 200>>

(***************************************************************************)
(* C4.  A run of keyboard_control on a world in which no entity carries    *)
(* the Controlled marker changes nothing, for every key state.             *)
(***************************************************************************)
C4_NoControlledIsNoOp ==
    (lastOp = "keyboard_control" /\ Controlled(before) = {}) => world = before

C4_Witness ==
    /\ lastOp = "keyboard_control"
    /\ Controlled(before) = {}
    /\ keys = {"Left", "Up"}
    /\ \E i \in DOMAIN before : before[i].hasBody /\ world[i].linvel = <<7, -3>>
    /\ \E i \in DOMAIN before : before[i].kc

(***************************************************************************)
(* C10.  A run of keyboard_control on a world in which two or more         *)
(* entities carry the Controlled marker changes nothing either: no entity  *)
(* is picked, each keeps its velocity.                                     *)
(***************************************************************************)
C10_SeveralControlledIsNoOp ==
    (lastOp = "keyboard_control" /\ Cardinality(Controlled(before)) >= 2) => world = before

C10_Witness ==
    /\ lastOp = "keyboard_control"
    /\ Cardinality(Controlled(before)) = 2
    /\ keys = {"Right"}
    /\ world[1].linvel = <<7, -3>>
    /\ world[2].linvel = <<0, 0>>


C5_BodiesAndMarker ==
    pc # "startup" =>
        /\ Cardinality(StaticBodies(world)) = 6
        /\ Cardinality(DynamicBodies(world)) = 1
        /\ Controlled(world) = DynamicBodies(world)
        /\ {i \in DOMAIN world : world[i].kc} = DynamicBodies(world)

C5_Witness ==
    /\ pc = "idle"
    /\ frames = 2
    /\ ticks = 2
    /\ steps = 2
    /\ Cardinality(StaticBodies(world)) = 6
    /\ Controlled(world) = {9}

(***************************************************************************)
(* C6.  setup runs exactly once, before the first fixed tick and the first *)
(* physics step; from then on gravity is (0, 0), and (0, 0) is what every  *)
(* physics step reads.                                                     *)
(***************************************************************************)
C6_SetupFirstGravityZero ==
    /\ setupRuns <= 1
    /\ (pc = "startup" => setupRuns = 0 /\ ticks = 0 /\ steps = 0)
    /\ (pc # "startup" => setupRuns = 1 /\ gravity = <<0, 0>>)
    /\ (steps > 0 => gravRead = <<0, 0>>)

C6_Witness ==
    /\ setupRuns = 1
    /\ steps = 2
    /\ ticks = 1
    /\ gravity = <<0, 0>>
    /\ gravRead = <<0, 0>>

(***************************************************************************)
(* C7, the part on which the original and the amended statement agree:     *)
(* the four walls have thickness 10 and are centred at (-400, 0),          *)
(* (400, 0), (0, -300) and (0, 300), and the player's spawn point and the  *)
(* centres of both obstacles lie strictly between the inner faces.         *)
(***************************************************************************)
WallsPlaced ==
    /\ LeftWall.colPos.translation = <<-400, 0>>
    /\ RightWall.colPos.translation = <<400, 0>>
    /\ TopWall.colPos.translation = <<0, -300>>
    /\ BottomWall.colPos.translation = <<0, 300>>
    /\ \A e \in {LeftWall, RightWall} : 2 * e.shape[1] = 10 /\ e.colPos.angle = 0
    /\ \A e \in {TopWall, BottomWall} : 2 * e.shape[2] = 10 /\ e.colPos.angle = 0

StrictlyInside(c) ==
    /\ HighFace(LeftWall, 1) < c[1] /\ c[1] < LowFace(RightWall, 1)
    /\ HighFace(TopWall, 2) < c[2] /\ c[2] < LowFace(BottomWall, 2)

CentresInside ==
    /\ StrictlyInside(<<0, 0>>)
    /\ \A o \in Obstacles : StrictlyInside(o.colPos.translation)

(***************************************************************************)
(* C7 as stated.  The play area between the walls' inner faces is exactly  *)
(* W x H = 800 x 600.                                                      *)
(***************************************************************************)
C7_InnerFacesEnclose800x600 ==
    pc # "startup" =>
        /\ WallsPlaced
        /\ LowFace(RightWall, 1) - HighFace(LeftWall, 1) = 800
        /\ LowFace(BottomWall, 2) - HighFace(TopWall, 2) = 600
        /\ CentresInside

(***************************************************************************)
(* C7 as amended.  It is the walls' centre lines that enclose 800 x 600;   *)
(* each wall reaches half its thickness inwards, so the play area between  *)
(* the inner faces is (W - T) x (H - T) = 790 x 590.                       *)
(***************************************************************************)
C7_CentreLinesEnclose800x600 ==
    pc # "startup" =>
        /\ WallsPlaced
        /\ RightWall.colPos.translation[1] - LeftWall.colPos.translation[1] = 800
        /\ BottomWall.colPos.translation[2] - TopWall.colPos.translation[2] = 600
        /\ LowFace(RightWall, 1) - HighFace(LeftWall, 1) = 790
        /\ LowFace(BottomWall, 2) - HighFace(TopWall, 2) = 590
        /\ CentresInside

C7_Witness ==
    /\ lastOp = "setup"
    /\ Len(world) = 9
    /\ LeftWall.shape = <<5, 300>>
    /\ TopWall.shape = <<400, 5>>
    /\ Player.rbPos.translation = <<0, 0>>


(***************************************************************************)
(* C8, the part on which the original and the amended statement agree: a   *)
(* run of the mapper changes nothing but the linear velocity of the        *)
(* Controlled entity, and a position or rotation changes only in a physics *)
(* step and only for an entity with a rigid body.                          *)
(***************************************************************************)
MapperFrame(i) ==
    ticks' = ticks + 1 =>
        /\ [world'[i] EXCEPT !.linvel = world[i].linvel] = world[i]
        /\ (world'[i].linvel # world[i].linvel => i \in Controlled(world))

PoseOwnedByPhysics(i) ==
    Pose(world'[i]) # Pose(world[i]) => (steps' = steps + 1 /\ world[i].hasBody)

C9_ColliderMatchesTransform ==
    lastOp = "setup" =>
        \A i \in DOMAIN world :
            /\ world[i].hasCollider =>
                  /\ 2 * world[i].shape[1] = world[i].size[1]
                  /\ 2 * world[i].shape[2] = world[i].size[2]
                  /\ world[i].colPos.translation =
                        <<world[i].transform.translation[1], world[i].transform.translation[2]>>
                  /\ world[i].colPos.angle = TransformAngle(world[i].transform)
            /\ world[i].hasBody =>
                  /\ world[i].rbPos.translation =
                        <<world[i].transform.translation[1], world[i].transform.translation[2]>>
                  /\ world[i].linvel = <<0, 0>>
                  /\ world[i].rotLocked

====
